---------------------------- MODULE Spec2Model ----------------------------
(***************************************************************************)
(* Sticky-notes canvas (React 19 + TypeScript).                            *)
(*                                                                         *)
(* Three parts of the program are modelled here:                           *)
(*                                                                         *)
(*  - the reconciliation of the server's note list with the in-memory      *)
(*    note collection, App.mergeServerNotes / App.refreshFromServer        *)
(*    (src/src/App.tsx);                                                   *)
(*  - the drag controller, the hook useDragAndDrop (startDrag, handleDrag, *)
(*    endDrag), which turns pointer samples into calls of its onMove,      *)
(*    onResize and onDelete props (src/src/hooks/useApiStorage.ts, lines   *)
(*    237-372);                                                            *)
(*  - the note store of App (createNote, moveNote, resizeNote,             *)
(*    updateNoteText, bringToFront, deleteNote, deleteAllNotes,            *)
(*    refreshFromServer, the hydration and persistence effects) with the   *)
(*    hooks useApiStorage and useLocalStorage and the server stand-in      *)
(*    mockApi, from page load on (specification Spec, and SpecNoFailure    *)
(*    for its runs without a failing remote call).                         *)
(*                                                                         *)
(* Numbers are JavaScript numbers in the source; the model uses integers   *)
(* (pointer coordinates on a grid), so floating-point rounding is outside  *)
(* the model.                                                              *)
(*                                                                         *)
(* React state: startDrag runs in a mousedown handler and endDrag in a     *)
(* mouseup listener.  Both are discrete events, whose state updates React  *)
(* renders, and whose effects (the re-registration of the document         *)
(* listeners, App.tsx 235-260) React runs, before the next event is        *)
(* dispatched.  mousemove never changes dragState.  So every handler sees  *)
(* the dragState its predecessor left, and a handler is one atomic step.   *)
(* The same holds for the store: its handlers run in click, double-click   *)
(* and mousedown events, so each sees the notes, nextZIndex and apiNotes   *)
(* of the latest render.  moveNote and resizeNote are called from the      *)
(* mousemove listener; the model gives them the latest render as well.     *)
(***************************************************************************)
EXTENDS Integers, Sequences, FiniteSets, Bags, TLC

VARIABLES
    notes,          \* App: const [notes, setNotes] = useState<Note[]>([])
    nextZIndex,     \* App: const [nextZIndex, setNextZIndex] = useState(1)
    apiNotes,       \* useApiStorage: state.notes, the client's copy of the server list
    mergeCall,      \* history: the last call of mergeServerNotes (its prev and its argument)
    dragState,      \* useDragAndDrop: const [dragState, setDragState] = useState<DragState>
    draggedNoteId,  \* useDragAndDrop: const draggedNoteId = useRef<string | null>(null)
    trashRect,      \* trashZoneRef.current.getBoundingClientRect()
    emitted,        \* history: the onMove/onResize/onDelete calls made by the last handler
    dragCall,       \* history: the last drag handler called, its argument, whether it found a drag
    session,        \* history: the arguments of the last startDrag, and the note of the drag it discarded
    hasHydrated,    \* App: hasHydratedRef.current
    isLoading,      \* useApiStorage: state.isLoading
    apiError,       \* useApiStorage: state.error
    savedNotes,     \* useLocalStorage: const [notes, setNotes] = useState<Note[]>([])
    localStorage,   \* localStorage['sticky-notes'], parsed
    mockDatabase,   \* mockApi: let mockDatabase
    inflight,       \* the calls of mockApi that await their delay, a bag of requests
    mounted,        \* whether App is mounted (its mount effects have run)
    created,        \* the number of notes created since the page loaded
    userOps,        \* the number of user operations since the page loaded
    lastEvent,      \* history: the last handler or completion that ran
    batch           \* history: whether deleteAllNotes was the last user operation; its deletes, if it was called with no call pending, and their outcomes

mergeVars == <<notes, nextZIndex, apiNotes, mergeCall>>
dragVars  == <<dragState, draggedNoteId, trashRect, emitted, dragCall, session>>
storeVars == <<hasHydrated, isLoading, apiError, savedNotes, localStorage,
               mockDatabase, inflight, mounted, created, userOps, lastEvent, batch>>
vars      == <<notes, nextZIndex, apiNotes, mergeCall,
               dragState, draggedNoteId, trashRect, emitted, dragCall, session,
               hasHydrated, isLoading, apiError, savedNotes, localStorage,
               mockDatabase, inflight, mounted, created, userOps, lastEvent, batch>>

-----------------------------------------------------------------------------
(* Bounds of the model *)

\* longest note list drawn for the local collection and for the server list
MaxLen == 2
\* pointer coordinates are the grid points 250 * k, k in -1 .. MaxCoord
MaxCoord == 2
\* user operations (create, raise, delete, delete all, refresh) in a run of Spec
MaxOps == 3

-----------------------------------------------------------------------------
(* Values *)

\* JavaScript null, as the value of a string-typed reference
Null == "null"

Ids == {"a", "b", "c"}

Pos(px, py) == [x |-> px, y |-> py]
Size(w, h)  == [width |-> w, height |-> h]

\* The field values notes are drawn with.  The first two are the local and the
\* remote note of the merge scenario of the specification.
NoteVariants ==
    { [position |-> Pos(10, 10),  size |-> Size(200, 150), text |-> "",
       color |-> "#FFE066", zIndex |-> 5],
      [position |-> Pos(0, 0),    size |-> Size(50, 50),   text |-> "hi",
       color |-> "#fff",    zIndex |-> 1],
      [position |-> Pos(-30, 40), size |-> Size(100, 80),  text |-> "todo",
       color |-> "#4ECDC4", zIndex |-> 7] }

MkNote(id, v) ==
    [id |-> id, position |-> v.position, size |-> v.size, text |-> v.text,
     color |-> v.color, zIndex |-> v.zIndex]

NotePool == {MkNote(id, v) : id \in Ids, v \in NoteVariants}

IdsOf(list) == {list[i].id : i \in 1..Len(list)}
Range(list) == {list[i] : i \in 1..Len(list)}

UniqueIds(list) == \A i, j \in 1..Len(list) : list[i].id = list[j].id => i = j

\* Note lists of at most MaxLen notes with pairwise different ids
NoteLists ==
    UNION {{l \in [1..n -> NotePool] : UniqueIds(l)} : n \in 0..MaxLen}

-----------------------------------------------------------------------------
(* App.mergeServerNotes *)

HasId(list, id) == \E i \in 1..Len(list) : list[i].id = id

\* byId.get(id) for byId = new Map(prev.map((n) => [n.id, n])): the Map keeps
\* the last entry of a key
ById(prev, id) ==
    prev[CHOOSE i \in 1..Len(prev) :
            /\ prev[i].id = id
            /\ \A j \in 1..Len(prev) : prev[j].id = id => j <= i]

\* Variant of MergeNote: the spread without the three overrides, so the
\* server's geometry wins.
MergeNote_ServerGeometry(serverNote, localNote) == serverNote

\* Variant of MergeNote: the merged note is raised above the local one.
MergeNote_Raised(serverNote, localNote) ==
    [serverNote EXCEPT !.position = localNote.position,
                       !.size     = localNote.size,
                       !.zIndex   = localNote.zIndex + 1]

\* { ...serverNote, position: localNote.position, size: localNote.size,
\*   zIndex: localNote.zIndex }
MergeNote(serverNote, localNote) ==
    [serverNote EXCEPT !.position = localNote.position,
                       !.size     = localNote.size,
                       !.zIndex   = localNote.zIndex]

\* const merged = serverNotes.map(...)
Merged(prev, serverNotes) ==
    [i \in 1..Len(serverNotes) |->
        IF HasId(prev, serverNotes[i].id)
        THEN MergeNote(serverNotes[i], ById(prev, serverNotes[i].id))
        ELSE serverNotes[i]]

\* Variant of LocalOnly: every local note is kept, shared or not.
LocalOnly_All(prev, serverNotes) == prev

\* Variant of LocalOnly: the local-only notes are dropped.
LocalOnly_Dropped(prev, serverNotes) == <<>>

\* const localOnly = prev.filter((n) => !serverNotes.some((s) => s.id === n.id))
LocalOnly(prev, serverNotes) ==
    LET keep(n) == ~HasId(serverNotes, n.id)
    IN  SelectSeq(prev, keep)

\* const result = [...merged, ...localOnly]
MergeResult(prev, serverNotes) ==
    Merged(prev, serverNotes) \o LocalOnly(prev, serverNotes)

\* Math.max(...list.map((n) => n.zIndex)), for a list that is not empty
MaxZIndex(list) ==
    CHOOSE z \in {list[i].zIndex : i \in 1..Len(list)} :
        \A i \in 1..Len(list) : list[i].zIndex <= z

\* Variant of MergeCounter: the counter is one more than the number of notes.
MergeCounter_Length(result) == Len(result) + 1

\* Variant of MergeCounter: the counter is set to the maximum itself.
MergeCounter_NoIncrement(result) ==
    IF Len(result) > 0 THEN MaxZIndex(result) ELSE 1

\* const maxZ = result.length ? Math.max(...) : 0;  setNextZIndex(maxZ + 1)
MergeCounter(result) ==
    (IF Len(result) > 0 THEN MaxZIndex(result) ELSE 0) + 1

\* mergeServerNotes(serverNotes): the updater of setNotes computes the result
\* from the current collection and sets the counter from the result.
mergeServerNotes(serverNotes) ==
    /\ notes' = MergeResult(notes, serverNotes)
    /\ nextZIndex' = MergeCounter(MergeResult(notes, serverNotes))
    /\ mergeCall' = [called |-> TRUE, prev |-> notes, serverNotes |-> serverNotes]
    /\ UNCHANGED apiNotes

\* refreshFromServer: if (apiNotes.length > 0) mergeServerNotes(apiNotes)
refreshFromServer ==
    IF Len(apiNotes) > 0
    THEN mergeServerNotes(apiNotes)
    ELSE UNCHANGED mergeVars

-----------------------------------------------------------------------------
(* useDragAndDrop *)

MinWidth  == 100
MinHeight == 80

\* What startDrag leaves unset (startSize is undefined for a move) is the
\* empty sequence; a size that is set is the one-element sequence.
NoSize == <<>>

\* useState<DragState>({ isDragging: false, dragType: null,
\*   startPosition: { x: 0, y: 0 }, offset: { x: 0, y: 0 } })
InitialDragState ==
    [isDragging |-> FALSE, dragType |-> Null, startPosition |-> Pos(0, 0),
     startSize |-> NoSize, offset |-> Pos(0, 0)]

\* Variant of ResetDragState: the drag is left on.
ResetDragState_StillDragging ==
    [isDragging |-> TRUE, dragType |-> Null, startPosition |-> Pos(0, 0),
     startSize |-> NoSize, offset |-> Pos(0, 0)]

\* endDrag: setDragState({ isDragging: false, dragType: null,
\*   startPosition: { x: 0, y: 0 }, offset: { x: 0, y: 0 } })
ResetDragState ==
    [isDragging |-> FALSE, dragType |-> Null, startPosition |-> Pos(0, 0),
     startSize |-> NoSize, offset |-> Pos(0, 0)]

Max(a, b) == IF a >= b THEN a ELSE b

\* offset: { x: clientPosition.x - notePosition.x, y: clientPosition.y - notePosition.y }
DragOffset(clientPosition, notePosition) ==
    Pos(clientPosition.x - notePosition.x, clientPosition.y - notePosition.y)

\* Variant of NewPosition: the position is kept on the canvas.
NewPosition_OnCanvas(ds, clientPosition) ==
    Pos(Max(0, clientPosition.x - ds.offset.x),
        Max(0, clientPosition.y - ds.offset.y))

\* const newPosition = { x: clientPosition.x - dragState.offset.x, y: ... }
NewPosition(ds, clientPosition) ==
    Pos(clientPosition.x - ds.offset.x, clientPosition.y - ds.offset.y)

\* Variant of NewSize: no minimum size.
NewSize_NoFloor(ds, clientPosition) ==
    Size(ds.startSize[1].width  + clientPosition.x - ds.offset.x - ds.startPosition.x,
         ds.startSize[1].height + clientPosition.y - ds.offset.y - ds.startPosition.y)

\* Variant of NewSize: the delta is taken from the pointer, not from the
\* position the pointer was mapped to.
NewSize_PointerDelta(ds, clientPosition) ==
    Size(Max(MinWidth,  ds.startSize[1].width  + clientPosition.x - ds.startPosition.x),
         Max(MinHeight, ds.startSize[1].height + clientPosition.y - ds.startPosition.y))

\* const newSize = { width: Math.max(100, startSize.width + deltaX),
\*                   height: Math.max(80, startSize.height + deltaY) }
\* with deltaX = newPosition.x - startPosition.x, deltaY likewise
NewSize(ds, clientPosition) ==
    LET newPosition == NewPosition(ds, clientPosition)
        deltaX == newPosition.x - ds.startPosition.x
        deltaY == newPosition.y - ds.startPosition.y
    IN  Size(Max(MinWidth,  ds.startSize[1].width  + deltaX),
             Max(MinHeight, ds.startSize[1].height + deltaY))

\* Variant of IsOverTrash: the edges are not part of the trash zone.
IsOverTrash_Strict(rect, clientPosition) ==
    /\ clientPosition.x > rect.left
    /\ clientPosition.x < rect.right
    /\ clientPosition.y > rect.top
    /\ clientPosition.y < rect.bottom

\* const isOverTrash = clientPosition.x >= trashRect.left && ... <= trashRect.bottom
IsOverTrash(rect, clientPosition) ==
    /\ clientPosition.x >= rect.left
    /\ clientPosition.x <= rect.right
    /\ clientPosition.y >= rect.top
    /\ clientPosition.y <= rect.bottom

\* Variant of ChecksTrash: a drop of any drag is tested against the trash zone.
ChecksTrash_AnyDrag(ds) == TRUE

\* if (trashZoneRef.current && dragState.dragType === 'move'): App always
\* renders <TrashZone ref={trashZoneRef}>, so the reference is set whenever a
\* handler runs
ChecksTrash(ds) == ds.dragType = "move"

\* if (!dragState.isDragging || !draggedNoteId.current) return
NoDrag(ds, id) == ~ds.isDragging \/ id = Null

\* the calls of the props onMove, onResize, onDelete
MoveIntent(id, position) == [type |-> "move", id |-> id, position |-> position]
ResizeIntent(id, size)   == [type |-> "resize", id |-> id, size |-> size]
DeleteIntent(id)         == [type |-> "delete", id |-> id]

\* Variant of HandleDragEmits: no early return, and a move for every drag that
\* is not a resize.
HandleDragEmits_Unguarded(ds, id, clientPosition) ==
    IF ds.dragType = "resize" /\ ds.startSize # NoSize
    THEN <<ResizeIntent(id, NewSize(ds, clientPosition))>>
    ELSE <<MoveIntent(id, NewPosition(ds, clientPosition))>>

\* what handleDrag(clientPosition) calls
HandleDragEmits(ds, id, clientPosition) ==
    IF NoDrag(ds, id) THEN <<>>
    ELSE IF ds.dragType = "move"
         THEN <<MoveIntent(id, NewPosition(ds, clientPosition))>>
    ELSE IF ds.dragType = "resize" /\ ds.startSize # NoSize
         THEN <<ResizeIntent(id, NewSize(ds, clientPosition))>>
    ELSE <<>>

\* what endDrag(clientPosition) calls
EndDragEmits(ds, id, rect, clientPosition) ==
    IF NoDrag(ds, id) THEN <<>>
    ELSE IF ChecksTrash(ds) /\ IsOverTrash(rect, clientPosition)
         THEN <<DeleteIntent(id)>>
    ELSE <<>>

Call(op, clientPosition) ==
    [op |-> op, clientPosition |-> clientPosition,
     active |-> ~NoDrag(dragState, draggedNoteId)]

\* the note of the drag that a startDrag finds under way and discards
Discarded == IF NoDrag(dragState, draggedNoteId) THEN Null ELSE draggedNoteId

\* Variant of startDrag: a drag under way is kept, the new one is ignored.
startDrag_KeepsSession(noteId, dragType, clientPosition, notePosition, noteSize) ==
    /\ IF NoDrag(dragState, draggedNoteId)
       THEN /\ draggedNoteId' = noteId
            /\ dragState' = [isDragging    |-> TRUE,
                             dragType      |-> dragType,
                             startPosition |-> notePosition,
                             startSize     |-> noteSize,
                             offset        |-> DragOffset(clientPosition, notePosition)]
       ELSE UNCHANGED <<dragState, draggedNoteId>>
    /\ emitted' = <<>>
    /\ dragCall' = Call("startDrag", clientPosition)
    /\ session' = [noteId |-> noteId, dragType |-> dragType,
                   clientPosition |-> clientPosition,
                   notePosition |-> notePosition, noteSize |-> noteSize,
                   discarded |-> Discarded]
    /\ UNCHANGED trashRect

\* startDrag(noteId, dragType, clientPosition, notePosition, noteSize?).  App
\* passes no onDragStart.
startDrag(noteId, dragType, clientPosition, notePosition, noteSize) ==
    /\ draggedNoteId' = noteId
    /\ dragState' = [isDragging    |-> TRUE,
                     dragType      |-> dragType,
                     startPosition |-> notePosition,
                     startSize     |-> noteSize,
                     offset        |-> DragOffset(clientPosition, notePosition)]
    /\ emitted' = <<>>
    /\ dragCall' = Call("startDrag", clientPosition)
    /\ session' = [noteId |-> noteId, dragType |-> dragType,
                   clientPosition |-> clientPosition,
                   notePosition |-> notePosition, noteSize |-> noteSize,
                   discarded |-> Discarded]
    /\ UNCHANGED trashRect

\* handleDrag(clientPosition)
handleDrag(clientPosition) ==
    /\ emitted' = HandleDragEmits(dragState, draggedNoteId, clientPosition)
    /\ dragCall' = Call("handleDrag", clientPosition)
    /\ UNCHANGED <<dragState, draggedNoteId, trashRect, session>>

\* endDrag(clientPosition).  App passes no onDragEnd.
endDrag(clientPosition) ==
    /\ emitted' = EndDragEmits(dragState, draggedNoteId, trashRect, clientPosition)
    /\ IF NoDrag(dragState, draggedNoteId)
       THEN UNCHANGED <<dragState, draggedNoteId>>
       ELSE /\ dragState' = ResetDragState
            /\ draggedNoteId' = Null
    /\ dragCall' = Call("endDrag", clientPosition)
    /\ UNCHANGED <<trashRect, session>>

\* Variant of isDraggingNote: true in every drag, resizes included.
isDraggingNote_AnyDrag == dragState.isDragging

\* isDraggingNote: dragState.isDragging && dragState.dragType === 'move'
isDraggingNote == dragState.isDragging /\ dragState.dragType = "move"

-----------------------------------------------------------------------------
(* mockApi (services/mockApi.ts), the hook useApiStorage and App's store    *)
(*                                                                           *)
(* A call of mockApi waits for its delay and then, in one task, tests for    *)
(* the simulated error, reads or changes mockDatabase and settles; the       *)
(* hook's continuation (setState) runs in the same task's microtasks.  So a  *)
(* remote call is two steps: its issue, inside the handler that makes the    *)
(* call, and its completion.  Completions are taken in any order: the delay  *)
(* and the error rate are settings (mockApi.configure), and the real         *)
(* back-end the mock stands for answers when it answers.                     *)
(*                                                                           *)
(* After every step React renders and runs the effects of App until no       *)
(* state changes: this is Settled below.  A step of the model is a handler   *)
(* or a completion together with these renders.                              *)

\* requests awaiting their delay; note is <<>> or the one note of a save;
\* local is <<>> or the one list the caller stores with saveToLocal when the
\* call has settled
LoadRequest ==
    [kind |-> "getNotes", id |-> Null, note |-> <<>>, local |-> <<>>]
SaveRequest(note) ==
    [kind |-> "saveNote", id |-> note.id, note |-> <<note>>, local |-> <<>>]
DeleteRequest(id) ==
    [kind |-> "deleteNote", id |-> id, note |-> <<>>, local |-> <<>>]
\* the save of moveNote, which is followed by saveToLocal(list)
MoveRequest(note, list) ==
    [kind |-> "saveNote", id |-> note.id, note |-> <<note>>, local |-> <<list>>]

Issue(bag, requests) == bag (+) SetToBag(requests)
Answer(bag, request) == bag (-) SetToBag({request})

\* Variant of DbSave: the note is pushed whether or not the id is held.
DbSave_Push(db, note) == Append(db, note)

\* mockApi.saveNote: replace the first note of that id, or push
DbSave(db, note) ==
    IF HasId(db, note.id)
    THEN LET first == CHOOSE i \in 1..Len(db) :
                          /\ db[i].id = note.id
                          /\ \A j \in 1..(i - 1) : db[j].id # note.id
         IN  [db EXCEPT ![first] = note]
    ELSE Append(db, note)

\* mockDatabase.filter(note => note.id !== noteId), and the same filter in
\* the hook and in App.deleteNote
WithoutId(list, id) ==
    LET Keep(n) == n.id # id IN SelectSeq(list, Keep)

\* useApiStorage.saveNote, on success: prev.notes.some(...) ? map : append
Upsert(list, note) ==
    IF HasId(list, note.id)
    THEN [i \in 1..Len(list) |-> IF list[i].id = note.id THEN note ELSE list[i]]
    ELSE Append(list, note)

\* error.message of the ApiError each call throws
LoadErrorMessage     == "Failed to fetch notes from server"
SaveErrorMessage     == "Failed to save note to server"
DeleteErrorMessage   == "Note not found or failed to delete"
NotFoundErrorMessage == "Note not found"

\* new ApiError(status, message)
ApiError(status, message) == [status |-> status, message |-> message]

LoadError     == ApiError(500, LoadErrorMessage)
SaveError     == ApiError(500, SaveErrorMessage)
DeleteError   == ApiError(404, DeleteErrorMessage)
NotFoundError == ApiError(404, NotFoundErrorMessage)

(* localStorage['sticky-notes'].  An item is absent, or a text that          *)
(* JSON.parse rejects, or the JSON text of a note list; notes is the list    *)
(* the text stands for (for a rejected text, the list it was meant to be).   *)

Absent == [kind |-> "absent", notes |-> <<>>]

\* JSON.stringify(notesToSave)
Stringified(list) == [kind |-> "json", notes |-> list]

\* Variant of LoadedNotes: a text that does not parse is read as far as it goes.
LoadedNotes_Lenient(item) == item.notes

\* the load effect of useLocalStorage: the list it passes to setNotes; for an
\* absent item (null, not truthy) and for a text on which JSON.parse throws
\* (caught and logged) setNotes is not called and the state stays []
LoadedNotes(item) ==
    IF item.kind = "json" THEN item.notes ELSE <<>>

(* The renders that follow a step.  st is the state a render shows; dn, da,  *)
(* ds tell whether notes, apiNotes, savedNotes are new arrays since the last *)
(* render, which is what the dependency lists of the two effects compare;    *)
(* same tells whether savedNotes is the very array notes is, in which case   *)
(* a setState of the one to the other changes nothing.                       *)

RenderState(n, z, a, s, ls, h) ==
    [notes |-> n, nextZIndex |-> z, apiNotes |-> a, savedNotes |-> s,
     localStorage |-> ls, hasHydrated |-> h]

\* the list the hydration effect adopts: apiNotes if it has notes, else
\* savedNotes
HydrationSource(st) ==
    IF Len(st.apiNotes) > 0 THEN st.apiNotes ELSE st.savedNotes

\* Variant of Hydrates: no hasHydratedRef; the effect adopts apiNotes
\* whenever it is a new list with notes in it.
Hydrates_Again(st, da, ds) ==
    /\ da
    /\ Len(st.apiNotes) > 0

\* the hydration effect runs (its dependencies changed) and passes its guards
Hydrates(st, da, ds) ==
    /\ da \/ ds
    /\ ~st.hasHydrated
    /\ Len(st.apiNotes) > 0 \/ Len(st.savedNotes) > 0

\* Variant of PersistenceRuns: the effect runs only when notes changed, as
\* it would with a saveToLocal that is the same function in every render.
PersistenceRuns_NotesOnly(dn) == dn

\* the persistence effect depends on [notes, saveToLocal]; saveToLocal is
\* useLocalStorage's saveNotes, a new function in every render, so the effect
\* runs after every render
PersistenceRuns(dn) == TRUE

\* one render: the hydration effect, then the persistence effect, which
\* stores the notes this render shows
AfterEffects(st, dn, da, ds) ==
    [notes        |-> IF Hydrates(st, da, ds) THEN HydrationSource(st) ELSE st.notes,
     nextZIndex   |-> IF Hydrates(st, da, ds)
                      THEN MaxZIndex(HydrationSource(st)) + 1
                      ELSE st.nextZIndex,
     apiNotes     |-> st.apiNotes,
     savedNotes   |-> IF PersistenceRuns(dn) THEN st.notes ELSE st.savedNotes,
     localStorage |-> IF PersistenceRuns(dn) THEN Stringified(st.notes)
                                             ELSE st.localStorage,
     hasHydrated  |-> st.hasHydrated \/ Hydrates(st, da, ds)]

\* the renders from the one that shows st on, until one changes nothing
RECURSIVE Renders(_, _, _, _, _)
Renders(st, dn, da, ds, same) ==
    LET \* setNotes(apiNotes), or setNotes(savedNotes) with another array
        dn2 == Hydrates(st, da, ds) /\ ~(Len(st.apiNotes) = 0 /\ same)
        \* saveToLocal(notes) sets savedNotes to another array
        ds2 == PersistenceRuns(dn) /\ ~same
        same2 == ~dn2 /\ (PersistenceRuns(dn) \/ same)
    IN  IF dn2 \/ ds2
        THEN Renders(AfterEffects(st, dn, da, ds), dn2, FALSE, ds2, same2)
        ELSE AfterEffects(st, dn, da, ds)

\* the renders after a handler or a completion that began with savedNotes
\* being the array notes was
Settled(st, dn, da, ds) == Renders(st, dn, da, ds, ~dn /\ ~ds)

\* the state after the renders
Commit(st) ==
    /\ notes' = st.notes
    /\ nextZIndex' = st.nextZIndex
    /\ apiNotes' = st.apiNotes
    /\ savedNotes' = st.savedNotes
    /\ localStorage' = st.localStorage
    /\ hasHydrated' = st.hasHydrated

\* history records
Event(kind, id, ok) == [kind |-> kind, id |-> id, ok |-> ok, status |-> 0]
\* a completion that threw error
Failed(kind, id, error) ==
    [kind |-> kind, id |-> id, ok |-> FALSE, status |-> error.status]
NoBatch == [ids |-> {}, done |-> {}, failed |-> {}, called |-> FALSE]

\* `note-${Date.now()}-${random}`: the k-th note created gets an id of its own
NewId(k) == "note-" \o ToString(k)

\* NOTE_COLORS[0], the initial selectedColor
SelectedColor == "#FFE066"

\* the newNote of createNote and of handleCanvasClick
NewNote(id, position, color, z) ==
    [id |-> id, position |-> position, size |-> Size(200, 150), text |-> "",
     color |-> color, zIndex |-> z]

\* Variant of NextCounter: the counter is left as it is.
NextCounter_Same(z) == z

\* setNextZIndex((prev) => prev + 1)
NextCounter(z) == z + 1

\* Variant of Raised: the note gets the highest zIndex in use, not one above it.
Raised_Below(list, id, z) ==
    [i \in 1..Len(list) |->
        IF list[i].id = id THEN [list[i] EXCEPT !.zIndex = z - 1] ELSE list[i]]

\* bringToFront: prev.map(note => note.id === id ? {...note, zIndex: nextZIndex} : note)
Raised(list, id, z) ==
    [i \in 1..Len(list) |->
        IF list[i].id = id THEN [list[i] EXCEPT !.zIndex = z] ELSE list[i]]

\* Variant of Removed: the note stays in the collection.
Removed_Kept(list, id) == list

\* deleteNote: setNotes((prev) => prev.filter((note) => note.id !== id))
Removed(list, id) == WithoutId(list, id)

\* Variant of CreateCatch: the note whose save failed is taken out again.
CreateCatch_Rollback(list, note) == WithoutId(list, note.id)

\* the catch block of createNote: logs, and leaves the collection alone
CreateCatch(list, note) == list

\* The mount effects queue two updates of useLocalStorage's notes: the parsed
\* snapshot (load effect) and then the notes of the first render, which the
\* persistence effect saves; the second one is the state of the next render.
MountSavedNotes(parsed, rendered) == rendered

\* The mount effects, in the order of the hooks: useLocalStorage's load,
\* useApiStorage's loadNotes, App's hydration (nothing to adopt in the first
\* render) and App's persistence.
Mount ==
    /\ ~mounted
    /\ mounted' = TRUE
    /\ isLoading' = TRUE
    /\ apiError' = Null
    /\ inflight' = Issue(inflight, {LoadRequest})
    /\ Commit(Renders(RenderState(notes, nextZIndex, apiNotes,
                                  MountSavedNotes(LoadedNotes(localStorage), notes),
                                  Stringified(notes), hasHydrated),
                      FALSE, FALSE, TRUE, TRUE))
    \* ok: the load effect ran without JSON.parse throwing
    /\ lastEvent' = Event("mount", Null, localStorage.kind # "corrupt")
    /\ UNCHANGED <<mockDatabase, created, userOps, batch, mergeCall>>
    /\ UNCHANGED dragVars

\* the completion of mockApi.getNotes and loadNotes' continuation
LoadDone(ok) ==
    /\ BagIn(LoadRequest, inflight)
    /\ inflight' = Answer(inflight, LoadRequest)
    /\ isLoading' = FALSE
    /\ IF ok
       THEN /\ apiError' = Null
            /\ Commit(Settled(RenderState(notes, nextZIndex, mockDatabase,
                                          savedNotes, localStorage, hasHydrated),
                              FALSE, TRUE, FALSE))
       ELSE /\ apiError' = LoadError.message
            /\ Commit(Settled(RenderState(notes, nextZIndex, apiNotes,
                                          savedNotes, localStorage, hasHydrated),
                              FALSE, FALSE, FALSE))
    /\ lastEvent' = IF ok THEN Event("loadDone", Null, TRUE)
                          ELSE Failed("loadDone", Null, LoadError)
    /\ UNCHANGED <<mockDatabase, mounted, created, userOps, batch, mergeCall>>
    /\ UNCHANGED dragVars

\* createNote (toolbar) and handleCanvasClick (double click): the same code
\* but for the position
CreateNote(position) ==
    /\ mounted
    /\ userOps < MaxOps
    /\ LET newNote == NewNote(NewId(created + 1), position, SelectedColor, nextZIndex)
       IN  /\ Commit(Settled(RenderState(Append(notes, newNote),
                                         NextCounter(nextZIndex), apiNotes,
                                         savedNotes, localStorage, hasHydrated),
                             TRUE, FALSE, FALSE))
           /\ inflight' = Issue(inflight, {SaveRequest(newNote)})
           /\ lastEvent' = Event("createNote", newNote.id, TRUE)
    /\ isLoading' = TRUE
    /\ apiError' = Null
    /\ created' = created + 1
    /\ userOps' = userOps + 1
    /\ batch' = NoBatch
    /\ UNCHANGED <<mockDatabase, mounted, mergeCall>>
    /\ UNCHANGED dragVars

\* bringToFront(id), called by the mousedown handler of a note on the screen
BringToFront(id) ==
    /\ mounted
    /\ userOps < MaxOps
    /\ Commit(Settled(RenderState(Raised(notes, id, nextZIndex),
                                  NextCounter(nextZIndex), apiNotes,
                                  savedNotes, localStorage, hasHydrated),
                      TRUE, FALSE, FALSE))
    /\ lastEvent' = Event("bringToFront", id, TRUE)
    /\ userOps' = userOps + 1
    /\ batch' = NoBatch
    /\ UNCHANGED <<isLoading, apiError, mockDatabase, inflight, mounted,
                   created, mergeCall>>
    /\ UNCHANGED dragVars

\* deleteNote(id), the onDelete of the drag controller
DeleteNote(id) ==
    /\ mounted
    /\ userOps < MaxOps
    /\ Commit(Settled(RenderState(Removed(notes, id), nextZIndex, apiNotes,
                                  savedNotes, localStorage, hasHydrated),
                      TRUE, FALSE, FALSE))
    /\ isLoading' = TRUE
    /\ apiError' = Null
    /\ inflight' = Issue(inflight, {DeleteRequest(id)})
    /\ lastEvent' = Event("deleteNote", id, TRUE)
    /\ userOps' = userOps + 1
    /\ batch' = NoBatch
    /\ UNCHANGED <<mockDatabase, mounted, created, mergeCall>>
    /\ UNCHANGED dragVars

\* deleteAllNotes: one deleteNoteFromApi per note of apiNotes
DeleteAllNotes ==
    /\ mounted
    /\ userOps < MaxOps
    /\ Commit(Settled(RenderState(<<>>, nextZIndex, apiNotes,
                                  savedNotes, localStorage, hasHydrated),
                      TRUE, FALSE, FALSE))
    /\ IF Len(apiNotes) > 0
       THEN isLoading' = TRUE /\ apiError' = Null
       ELSE UNCHANGED <<isLoading, apiError>>
    /\ inflight' = Issue(inflight, {DeleteRequest(id) : id \in IdsOf(apiNotes)})
    /\ lastEvent' = Event("deleteAllNotes", Null, TRUE)
    /\ userOps' = userOps + 1
    /\ batch' = [ids |-> IF inflight = EmptyBag THEN IdsOf(apiNotes) ELSE {},
                 done |-> {}, failed |-> {}, called |-> TRUE]
    /\ UNCHANGED <<mockDatabase, mounted, created, mergeCall>>
    /\ UNCHANGED dragVars

\* refreshFromServer (the refresh button), when it calls mergeServerNotes
Refresh ==
    /\ mounted
    /\ userOps < MaxOps
    /\ Len(apiNotes) > 0
    /\ Commit(Settled(RenderState(MergeResult(notes, apiNotes),
                                  MergeCounter(MergeResult(notes, apiNotes)),
                                  apiNotes, savedNotes, localStorage, hasHydrated),
                      TRUE, FALSE, FALSE))
    /\ mergeCall' = [called |-> TRUE, prev |-> notes, serverNotes |-> apiNotes]
    /\ lastEvent' = Event("refreshFromServer", Null, TRUE)
    /\ userOps' = userOps + 1
    /\ batch' = NoBatch
    /\ UNCHANGED <<isLoading, apiError, mockDatabase, inflight, mounted, created>>
    /\ UNCHANGED dragVars

\* Variant of ResizeRequests: a resize is saved to the server like a move.
ResizeRequests_Saved(note) == {SaveRequest(note)}

\* the remote calls of resizeNote: none ("purely local")
ResizeRequests(note) == {}

\* the closure's notes.find((note) => note.id === id): the first note of that id
Find(list, id) ==
    list[CHOOSE i \in 1..Len(list) :
             /\ list[i].id = id
             /\ \A j \in 1..(i - 1) : list[j].id # id]

\* Variant of Moved: the moved note goes to the end of the list.
Moved_Last(list, id, position) ==
    LET Other(n) == n.id # id
        Same(n) == n.id = id
    IN  SelectSeq(list, Other)
          \o [i \in 1..Len(SelectSeq(list, Same)) |->
                 [SelectSeq(list, Same)[i] EXCEPT !.position = position]]

\* prev.map((note) => (note.id === id ? { ...note, position } : note))
Moved(list, id, position) ==
    [i \in 1..Len(list) |->
        IF list[i].id = id THEN [list[i] EXCEPT !.position = position] ELSE list[i]]

\* prev.map((note) => (note.id === id ? { ...note, size } : note))
Resized(list, id, size) ==
    [i \in 1..Len(list) |->
        IF list[i].id = id THEN [list[i] EXCEPT !.size = size] ELSE list[i]]

\* prev.map((note) => (note.id === id ? { ...note, text } : note))
Retexted(list, id, text) ==
    [i \in 1..Len(list) |->
        IF list[i].id = id THEN [list[i] EXCEPT !.text = text] ELSE list[i]]

\* notes.map((note) => note.id === id ? noteWithNewPosition : note)
Replaced(list, id, note) ==
    [i \in 1..Len(list) |-> IF list[i].id = id THEN note ELSE list[i]]

\* the remote calls of moveNote: one save if notes.find found the note of
\* the closure, none (if (updatedNote) fails) otherwise
MoveRequests(list, id, position) ==
    IF HasId(list, id)
    THEN LET noteWithNewPosition == [Find(list, id) EXCEPT !.position = position]
         IN  {MoveRequest(noteWithNewPosition,
                          Replaced(list, id, noteWithNewPosition))}
    ELSE {}

\* Variant of TextRequests: the note is saved as the closure holds it.
TextRequests_Old(list, id, text) ==
    IF HasId(list, id) THEN {SaveRequest(Find(list, id))} ELSE {}

\* the remote calls of updateNoteText: saveNoteToApi({...updatedNote, text})
\* if notes.find found the note, none otherwise
TextRequests(list, id, text) ==
    IF HasId(list, id)
    THEN {SaveRequest([Find(list, id) EXCEPT !.text = text])}
    ELSE {}

\* setState(prev => ({...prev, isLoading: true, error: null})) of each call
\* the handler issued
Calling(requests, loading, error) ==
    IF requests = {} THEN <<loading, error>> ELSE <<TRUE, Null>>

\* moveNote(id, position), the onMove of the drag controller
MoveNote(id, position) ==
    /\ mounted
    /\ userOps < MaxOps
    /\ inflight' = Issue(inflight, MoveRequests(notes, id, position))
    /\ Commit(Settled(RenderState(Moved(notes, id, position), nextZIndex, apiNotes,
                                  savedNotes, localStorage, hasHydrated),
                      TRUE, FALSE, FALSE))
    /\ isLoading' = Calling(MoveRequests(notes, id, position), isLoading, apiError)[1]
    /\ apiError' = Calling(MoveRequests(notes, id, position), isLoading, apiError)[2]
    /\ lastEvent' = Event("moveNote", id, TRUE)
    /\ userOps' = userOps + 1
    /\ batch' = NoBatch
    /\ UNCHANGED <<mockDatabase, mounted, created, mergeCall>>
    /\ UNCHANGED dragVars

\* resizeNote(id, size), the onResize of the drag controller
ResizeNote(id, size) ==
    /\ mounted
    /\ userOps < MaxOps
    /\ Commit(Settled(RenderState(Resized(notes, id, size), nextZIndex, apiNotes,
                                  savedNotes, localStorage, hasHydrated),
                      TRUE, FALSE, FALSE))
    /\ inflight' = Issue(inflight,
                         IF HasId(notes, id)
                         THEN ResizeRequests([Find(notes, id) EXCEPT !.size = size])
                         ELSE {})
    /\ lastEvent' = Event("resizeNote", id, TRUE)
    /\ userOps' = userOps + 1
    /\ batch' = NoBatch
    /\ UNCHANGED <<isLoading, apiError, mockDatabase, mounted, created, mergeCall>>
    /\ UNCHANGED dragVars

\* updateNoteText(id, text), the onTextChange of StickyNote.handleTextSubmit
UpdateNoteText(id, text) ==
    /\ mounted
    /\ userOps < MaxOps
    /\ Commit(Settled(RenderState(Retexted(notes, id, text), nextZIndex, apiNotes,
                                  savedNotes, localStorage, hasHydrated),
                      TRUE, FALSE, FALSE))
    /\ inflight' = Issue(inflight, TextRequests(notes, id, text))
    /\ isLoading' = Calling(TextRequests(notes, id, text), isLoading, apiError)[1]
    /\ apiError' = Calling(TextRequests(notes, id, text), isLoading, apiError)[2]
    /\ lastEvent' = Event("updateNoteText", id, TRUE)
    /\ userOps' = userOps + 1
    /\ batch' = NoBatch
    /\ UNCHANGED <<mockDatabase, mounted, created, mergeCall>>
    /\ UNCHANGED dragVars

\* what the caller of saveNoteToApi does when the call has settled either
\* way: moveNote stores its list with saveToLocal, which sets the item of
\* localStorage and the state of useLocalStorage; createNote and
\* updateNoteText do nothing
AfterSave(request, st) ==
    IF request.local = <<>> THEN st
    ELSE [st EXCEPT !.localStorage = Stringified(request.local[1]),
                    !.savedNotes = request.local[1]]

\* the completion of mockApi.saveNote, the continuation of the hook's
\* saveNote and the rest of the caller (its catch block on failure)
SaveDone(request, ok) ==
    /\ BagIn(request, inflight)
    /\ request.kind = "saveNote"
    /\ inflight' = Answer(inflight, request)
    /\ isLoading' = FALSE
    /\ IF ok
       THEN /\ mockDatabase' = DbSave(mockDatabase, request.note[1])
            /\ apiError' = Null
            /\ Commit(Settled(AfterSave(request,
                                  RenderState(notes, nextZIndex,
                                              Upsert(apiNotes, request.note[1]),
                                              savedNotes, localStorage, hasHydrated)),
                              FALSE, TRUE, request.local # <<>>))
            /\ lastEvent' = Event("saveDone", request.id, TRUE)
       ELSE /\ apiError' = SaveError.message
            /\ Commit(Settled(AfterSave(request,
                                  RenderState(CreateCatch(notes, request.note[1]),
                                              nextZIndex, apiNotes, savedNotes,
                                              localStorage, hasHydrated)),
                              FALSE, FALSE, request.local # <<>>))
            /\ lastEvent' = Failed("saveDone", request.id, SaveError)
            /\ UNCHANGED mockDatabase
    /\ UNCHANGED <<mounted, created, userOps, batch, mergeCall>>
    /\ UNCHANGED dragVars

\* Variant of DbDeleteFails: a delete of an unknown id goes through.
DbDeleteFails_Never(db, id) == FALSE

\* mockApi.deleteNote throws ApiError(404) if no note went away
DbDeleteFails(db, id) == Len(WithoutId(db, id)) = Len(db)

\* the completion of mockApi.deleteNote and the continuation of the hook's
\* deleteNote; the callers' catch blocks only log
DeleteDone(request, simulatedError) ==
    /\ BagIn(request, inflight)
    /\ request.kind = "deleteNote"
    /\ inflight' = Answer(inflight, request)
    /\ isLoading' = FALSE
    /\ LET fails == simulatedError \/ DbDeleteFails(mockDatabase, request.id)
           error == IF simulatedError THEN DeleteError ELSE NotFoundError
       IN  /\ IF fails
              THEN /\ apiError' = error.message
                   /\ Commit(Settled(RenderState(notes, nextZIndex, apiNotes,
                                                 savedNotes, localStorage,
                                                 hasHydrated),
                                     FALSE, FALSE, FALSE))
                   /\ lastEvent' = Failed("deleteDone", request.id, error)
                   /\ UNCHANGED mockDatabase
              ELSE /\ mockDatabase' = WithoutId(mockDatabase, request.id)
                   /\ apiError' = Null
                   /\ Commit(Settled(RenderState(notes, nextZIndex,
                                                 WithoutId(apiNotes, request.id),
                                                 savedNotes, localStorage,
                                                 hasHydrated),
                                     FALSE, TRUE, FALSE))
                   /\ lastEvent' = Event("deleteDone", request.id, TRUE)
           /\ batch' = IF request.id \in batch.ids \ batch.done
                       THEN [batch EXCEPT !.done = @ \cup {request.id},
                                          !.failed = IF fails THEN @ \cup {request.id}
                                                              ELSE @]
                       ELSE batch
    /\ UNCHANGED <<mounted, created, userOps, mergeCall>>
    /\ UNCHANGED dragVars

-----------------------------------------------------------------------------
(* Initial states *)

\* App and useApiStorage after construction
AppInit ==
    /\ notes = <<>>
    /\ nextZIndex = 1
    /\ apiNotes = <<>>
    /\ mergeCall = [called |-> FALSE, prev |-> <<>>, serverNotes |-> <<>>]

\* Where the trash zone lies on the screen is layout (CSS), not code.
TrashRect == [left |-> 0, right |-> 500, top |-> 0, bottom |-> 250]

\* useDragAndDrop after construction
DragInit ==
    /\ dragState = InitialDragState
    /\ draggedNoteId = Null
    /\ trashRect = TrashRect
    /\ emitted = <<>>
    /\ dragCall = [op |-> "none", clientPosition |-> Pos(0, 0), active |-> FALSE]
    /\ session = [noteId |-> Null, dragType |-> Null,
                  clientPosition |-> Pos(0, 0), notePosition |-> Pos(0, 0),
                  noteSize |-> NoSize, discarded |-> Null]

\* the store before App is mounted, an empty server and an empty localStorage
StoreIdle ==
    /\ hasHydrated = FALSE
    /\ isLoading = FALSE
    /\ apiError = Null
    /\ savedNotes = <<>>
    /\ localStorage = Absent
    /\ mockDatabase = <<>>
    /\ inflight = EmptyBag
    /\ mounted = FALSE
    /\ created = 0
    /\ userOps = 0
    /\ lastEvent = Event("none", Null, TRUE)
    /\ batch = NoBatch

-----------------------------------------------------------------------------
(* SpecMerge: mergeServerNotes on every bounded local collection and server list *)

MergeInit ==
    /\ notes \in NoteLists
    /\ apiNotes \in NoteLists
    /\ nextZIndex = MergeCounter(notes)
    /\ mergeCall = [called |-> FALSE, prev |-> <<>>, serverNotes |-> <<>>]
    /\ DragInit
    /\ StoreIdle

\* the function itself, applied to the server list whatever it is
MergeServerNotes ==
    /\ mergeServerNotes(apiNotes)
    /\ UNCHANGED dragVars
    /\ UNCHANGED storeVars

\* its call site, the refresh button
RefreshFromServer ==
    /\ Len(apiNotes) > 0
    /\ refreshFromServer
    /\ UNCHANGED dragVars
    /\ UNCHANGED storeVars

MergeNext == MergeServerNotes \/ RefreshFromServer

SpecMerge == MergeInit /\ [][MergeNext]_vars

-----------------------------------------------------------------------------
(* SpecDrag: the drag controller under every sequence of pointer events *)

Coords == {250 * k : k \in -1..MaxCoord}

\* e.clientX, e.clientY
ClientPositions == {Pos(cx, cy) : cx \in Coords, cy \in Coords}

DragIds == {"a", "b"}

\* the note the pointer goes down on: its note.position and note.size
DragNote(id) ==
    IF id = "a" THEN [position |-> Pos(100, -100), size |-> Size(200, 150)]
                ELSE [position |-> Pos(0, 0), size |-> Size(400, 350)]

NotePositions == {DragNote(id).position : id \in DragIds}
NoteSizes     == {DragNote(id).size : id \in DragIds}

\* StickyNote.handleMouseDown: onStartDrag(note.id, dragType, {clientX,
\* clientY}, note.position, dragType === 'resize' ? note.size : undefined)
StartDrag ==
    \E noteId \in DragIds, dragType \in {"move", "resize"},
       clientPosition \in ClientPositions :
        /\ DragNote(noteId).position \in NotePositions
        /\ DragNote(noteId).size \in NoteSizes
        /\ startDrag(noteId, dragType, clientPosition, DragNote(noteId).position,
                     IF dragType = "resize" THEN <<DragNote(noteId).size>>
                                            ELSE NoSize)
        /\ UNCHANGED mergeVars
        /\ UNCHANGED storeVars

\* document mousemove listener
HandleDrag ==
    \E clientPosition \in ClientPositions :
        /\ handleDrag(clientPosition)
        /\ UNCHANGED mergeVars
        /\ UNCHANGED storeVars

\* document mouseup listener
EndDrag ==
    \E clientPosition \in ClientPositions :
        /\ endDrag(clientPosition)
        /\ UNCHANGED mergeVars
        /\ UNCHANGED storeVars

DragNext == StartDrag \/ HandleDrag \/ EndDrag

DragSpecInit == AppInit /\ DragInit /\ StoreIdle

SpecDrag == DragSpecInit /\ [][DragNext]_vars

-----------------------------------------------------------------------------
(* Spec: the application from page load, under every sequence of at most    *)
(* MaxOps user operations and every order and outcome of the remote calls   *)

\* mockDatabase when the page loads: what earlier sessions left on the server
ServerInits ==
    { <<>>,
      <<MkNote("a", [position |-> Pos(0, 0), size |-> Size(50, 50),
                     text |-> "hi", color |-> "#FF6B6B", zIndex |-> 1])>>,
      <<MkNote("a", [position |-> Pos(0, 0), size |-> Size(50, 50),
                     text |-> "hi", color |-> "#FF6B6B", zIndex |-> 1]),
        MkNote("b", [position |-> Pos(10, 10), size |-> Size(200, 150),
                     text |-> "", color |-> "#FFE066", zIndex |-> 3]),
        MkNote("c", [position |-> Pos(-30, 40), size |-> Size(100, 80),
                     text |-> "todo", color |-> "#4ECDC4", zIndex |-> 2])>> }

\* localStorage['sticky-notes'] when the page loads: nothing, the notes of
\* an earlier session, or a text cut off in the middle of them
LocalSnapshots ==
    { Absent,
      Stringified(<<MkNote("b", [position |-> Pos(250, 250), size |-> Size(200, 150),
                                 text |-> "draft", color |-> "#FFE066", zIndex |-> 4])>>),
      [kind |-> "corrupt",
       notes |-> <<MkNote("b", [position |-> Pos(250, 250), size |-> Size(200, 150),
                                text |-> "draft", color |-> "#FFE066", zIndex |-> 4])>>] }

\* the notes the user moves, resizes and edits: one the server knows and
\* the first one created
EditedIds == {"a", NewId(1)}

\* position of onMove, size of onResize, text of onTextChange
MovePositions == {Pos(300, 200)}
ResizeSizes   == {Size(120, 90)}
Texts         == {"buy milk"}

\* Math.random() * (window.innerWidth - 200) + 50, ... + 100
CreatePositions == {Pos(60, 110)}

Init ==
    /\ AppInit
    /\ DragInit
    /\ hasHydrated = FALSE
    /\ isLoading = FALSE
    /\ apiError = Null
    /\ savedNotes = <<>>
    /\ localStorage \in LocalSnapshots
    /\ mockDatabase \in ServerInits
    /\ inflight = EmptyBag
    /\ mounted = FALSE
    /\ created = 0
    /\ userOps = 0
    /\ lastEvent = Event("none", Null, TRUE)
    /\ batch = NoBatch

Requests == BagToSet(inflight)

Next ==
    \/ Mount
    \/ \E ok \in BOOLEAN : LoadDone(ok)
    \/ \E position \in CreatePositions : CreateNote(position)
    \/ \E id \in IdsOf(notes) : BringToFront(id)
    \/ \E id \in IdsOf(notes) : DeleteNote(id)
    \/ DeleteAllNotes
    \/ Refresh
    \/ \E id \in EditedIds, position \in MovePositions : MoveNote(id, position)
    \/ \E id \in EditedIds, size \in ResizeSizes : ResizeNote(id, size)
    \/ \E id \in EditedIds, text \in Texts : UpdateNoteText(id, text)
    \/ \E request \in Requests, ok \in BOOLEAN : SaveDone(request, ok)
    \/ \E request \in Requests, simulatedError \in BOOLEAN :
           DeleteDone(request, simulatedError)

Spec == Init /\ [][Next]_vars

-----------------------------------------------------------------------------
(* SpecNoFailure: the runs of Spec in which no remote call fails.  The       *)
(* simulated errors are left out, and a delete is answered only while        *)
(* mockDatabase holds its id, since the answer would be a 404 otherwise.     *)

DeleteDoneOk(request) ==
    /\ HasId(mockDatabase, request.id)
    /\ DeleteDone(request, FALSE)

NextNoFailure ==
    \/ Mount
    \/ LoadDone(TRUE)
    \/ \E position \in CreatePositions : CreateNote(position)
    \/ \E id \in IdsOf(notes) : BringToFront(id)
    \/ \E id \in IdsOf(notes) : DeleteNote(id)
    \/ DeleteAllNotes
    \/ Refresh
    \/ \E id \in EditedIds, position \in MovePositions : MoveNote(id, position)
    \/ \E id \in EditedIds, size \in ResizeSizes : ResizeNote(id, size)
    \/ \E id \in EditedIds, text \in Texts : UpdateNoteText(id, text)
    \/ \E request \in Requests : SaveDone(request, TRUE)
    \/ \E request \in Requests : DeleteDoneOk(request)

SpecNoFailure == Init /\ [][NextNoFailure]_vars

-----------------------------------------------------------------------------
(* Properties of mergeServerNotes, checked under SpecMerge.  In SpecMerge    *)
(* every step is a merge, so once mergeCall.called holds, notes and          *)
(* nextZIndex are the result of the call mergeCall records.                  *)

Local  == mergeCall.prev
Server == mergeCall.serverNotes

\* C1: every note of the merge result whose id is in the local collection and
\* in the server list has the server note's text and color and the local
\* note's position, size and zIndex.
C1_MergeSharedNote ==
    mergeCall.called =>
        \A n \in Range(notes), l \in Range(Local), r \in Range(Server) :
            (l.id = n.id /\ r.id = n.id) =>
                /\ n.text = r.text
                /\ n.color = r.color
                /\ n.position = l.position
                /\ n.size = l.size
                /\ n.zIndex = l.zIndex

\* The scenario of the specification: local A at (10,10), 200x150, order 5,
\* and remote A "hi", "#fff", at (0,0), 50x50, order 1, merge into A at
\* (10,10), 200x150, order 5, "hi", "#fff".
C1_Witness ==
    /\ mergeCall.called
    /\ [id |-> "a", position |-> Pos(10, 10), size |-> Size(200, 150),
        text |-> "", color |-> "#FFE066", zIndex |-> 5] \in Range(Local)
    /\ [id |-> "a", position |-> Pos(0, 0), size |-> Size(50, 50),
        text |-> "hi", color |-> "#fff", zIndex |-> 1] \in Range(Server)
    /\ [id |-> "a", position |-> Pos(10, 10), size |-> Size(200, 150),
        text |-> "hi", color |-> "#fff", zIndex |-> 5] \in Range(notes)

\* C2: the merge result holds every local note whose id is not in the server
\* list, unchanged, and every server note whose id is not in the local
\* collection, unchanged, and the ids of the result are exactly the local and
\* the server ids, each once.
C2_MergeKeepsUnshared ==
    mergeCall.called =>
        /\ \A l \in Range(Local) : l.id \notin IdsOf(Server) => l \in Range(notes)
        /\ \A r \in Range(Server) : r.id \notin IdsOf(Local) => r \in Range(notes)
        /\ IdsOf(notes) = IdsOf(Local) \cup IdsOf(Server)
        /\ UniqueIds(notes)

C2_Witness ==
    /\ mergeCall.called
    /\ \E l \in Range(Local) : l.id \notin IdsOf(Server) /\ l \in Range(notes)
    /\ \E r \in Range(Server) : r.id \notin IdsOf(Local) /\ r \in Range(notes)
    /\ IdsOf(Local) \cap IdsOf(Server) # {}

\* C3: merging the result of a merge with the same server list again gives
\* the same note list and the same counter.
C3_MergeIdempotent ==
    mergeCall.called =>
        /\ MergeResult(notes, Server) = notes
        /\ MergeCounter(MergeResult(notes, Server)) = nextZIndex

C3_Witness ==
    /\ mergeCall.called
    /\ notes # Local
    /\ notes # Server
    /\ \E l \in Range(Local), r \in Range(Server) :
          /\ l.id = r.id
          /\ l.position # r.position
          /\ l.zIndex # r.zIndex
          /\ l.text # r.text
    /\ IdsOf(Local) \ IdsOf(Server) # {}
    /\ MergeResult(notes, Server) = notes

\* C4: after a merge the counter is 1 + the greatest zIndex of the merged
\* notes, and 1 when there is no merged note.
C4_MergeCounter ==
    mergeCall.called =>
        /\ \A n \in Range(notes) : n.zIndex < nextZIndex
        /\ notes # <<>> => \E n \in Range(notes) : nextZIndex = n.zIndex + 1
        /\ notes = <<>> => nextZIndex = 1

\* the greatest zIndex of the result is a local one although the server list
\* holds a greater one
C4_Witness ==
    /\ mergeCall.called
    /\ notes # <<>>
    /\ \E r \in Range(Server) : r.zIndex >= nextZIndex
    /\ \E n \in Range(notes) : nextZIndex = n.zIndex + 1

-----------------------------------------------------------------------------
(* Properties of the drag controller, checked under SpecDrag.  A handler     *)
(* that found a drag (dragCall.active) found the one the last startDrag      *)
(* began, whose arguments session records.                                   *)

P0 == session.clientPosition
P  == dragCall.clientPosition

\* C5: every resize the drag controller calls for has a width of at least
\* 100 and a height of at least 80.
C5_ResizeFloor ==
    \A i \in 1..Len(emitted) :
        emitted[i].type = "resize" =>
            /\ emitted[i].size.width >= 100
            /\ emitted[i].size.height >= 80

\* a pointer far up and left of where the resize began
C5_Witness ==
    /\ dragCall.op = "handleDrag"
    /\ Len(emitted) = 1
    /\ emitted[1].type = "resize"
    /\ session.noteSize[1].width + (P.x - P0.x) < 0
    /\ session.noteSize[1].height + (P.y - P0.y) < 0
    /\ emitted[1].size = Size(100, 80)

\* C6: in a resize drag begun with the pointer at p0 on a note of extent
\* (w, h), a pointer move to p calls onResize once, for the dragged note, with
\* (max(100, w + p.x - p0.x), max(80, h + p.y - p0.y)).
C6_ResizeExtent ==
    (dragCall.op = "handleDrag" /\ dragCall.active /\ session.dragType = "resize") =>
        emitted = << [type |-> "resize",
                      id   |-> session.noteId,
                      size |-> Size(Max(100, session.noteSize[1].width  + (P.x - P0.x)),
                                    Max(80,  session.noteSize[1].height + (P.y - P0.y)))] >>

\* extent (200,150) with delta (-500,-500) gives (100,80)
C6_Witness ==
    /\ dragCall.op = "handleDrag"
    /\ dragCall.active
    /\ session.dragType = "resize"
    /\ session.noteSize = <<Size(200, 150)>>
    /\ session.notePosition # Pos(0, 0)
    /\ P.x - P0.x = -500
    /\ P.y - P0.y = -500
    /\ emitted = <<[type |-> "resize", id |-> session.noteId, size |-> Size(100, 80)]>>

\* C7: in a move drag begun with the pointer at p0 on a note at n0, a pointer
\* move to p calls onMove once, for the dragged note, with p - (p0 - n0),
\* whatever its sign.
C7_MovePosition ==
    (dragCall.op = "handleDrag" /\ dragCall.active /\ session.dragType = "move") =>
        emitted = << [type     |-> "move",
                      id       |-> session.noteId,
                      position |-> Pos(P.x - (P0.x - session.notePosition.x),
                                       P.y - (P0.y - session.notePosition.y))] >>

\* a move to negative coordinates
C7_Witness ==
    /\ dragCall.op = "handleDrag"
    /\ dragCall.active
    /\ session.dragType = "move"
    /\ Len(emitted) = 1
    /\ emitted[1].type = "move"
    /\ emitted[1].position.x < 0
    /\ emitted[1].position.y < 0
    /\ P0 # session.notePosition

\* the pointer lies in the rectangle, edges included
InRect(rect, p) ==
    p.x \in rect.left..rect.right /\ p.y \in rect.top..rect.bottom

\* C8: endDrag in a move drag calls onDelete, once and for the dragged note,
\* exactly if the pointer lies in the trash rectangle, edges included;
\* otherwise it calls nothing.
C8_DeleteIffOverTrash ==
    (dragCall.op = "endDrag" /\ dragCall.active /\ session.dragType = "move") =>
        emitted = IF InRect(trashRect, P)
                  THEN <<[type |-> "delete", id |-> session.noteId]>>
                  ELSE <<>>

\* a drop at the pointer's starting point, which is a corner of the rectangle
C8_Witness ==
    /\ dragCall.op = "endDrag"
    /\ dragCall.active
    /\ session.dragType = "move"
    /\ P = P0
    /\ P = Pos(trashRect.right, trashRect.bottom)
    /\ emitted = <<[type |-> "delete", id |-> session.noteId]>>

\* C9: endDrag in a resize drag calls nothing, wherever the pointer is; only
\* a move drag ends in a call of onDelete.
C9_ResizeNeverDeletes ==
    /\ (dragCall.op = "endDrag" /\ dragCall.active /\ session.dragType = "resize")
          => emitted = <<>>
    /\ \A i \in 1..Len(emitted) :
          emitted[i].type = "delete" => session.dragType = "move"

\* a resize drag ended inside the trash rectangle
C9_Witness ==
    /\ dragCall.op = "endDrag"
    /\ dragCall.active
    /\ session.dragType = "resize"
    /\ InRect(trashRect, P)
    /\ emitted = <<>>

IsIdle ==
    /\ ~dragState.isDragging
    /\ dragState.dragType = Null
    /\ draggedNoteId = Null

\* C10: after endDrag the controller is idle, with no drag state and no
\* dragged note, whether or not it called onDelete; and a pointer move in the
\* idle state calls neither onMove nor onResize and leaves it idle.
C10_EndDragIdle ==
    /\ dragCall.op = "endDrag" => IsIdle
    /\ (dragCall.op = "handleDrag" /\ ~dragCall.active) => (emitted = <<>> /\ IsIdle)
    /\ (dragCall.op = "handleDrag" /\ IsIdle) => ~dragCall.active

\* a pointer move after the end of a drag
C10_Witness ==
    /\ dragCall.op = "handleDrag"
    /\ session.noteId # Null
    /\ IsIdle
    /\ emitted = <<>>

\* C11: in the idle state a pointer move and a pointer release are no-ops:
\* the handler calls none of onMove, onResize, onDelete and leaves the drag
\* state and the dragged-note reference as they were.
C11_IdleNoOps ==
    [][(IsIdle /\ dragCall'.op \in {"handleDrag", "endDrag"}) =>
           /\ emitted' = <<>>
           /\ dragState' = dragState
           /\ draggedNoteId' = draggedNoteId]_vars

\* a pointer release inside the trash rectangle with no drag under way
C11_Witness ==
    /\ dragCall.op = "endDrag"
    /\ ~dragCall.active
    /\ InRect(trashRect, P)
    /\ IsIdle
    /\ emitted = <<>>

\* the drag state a startDrag with the recorded arguments sets
SessionDragState ==
    [isDragging    |-> TRUE,
     dragType      |-> session.dragType,
     startPosition |-> session.notePosition,
     startSize     |-> session.noteSize,
     offset        |-> Pos(P0.x - session.notePosition.x, P0.y - session.notePosition.y)]

\* C12: a startDrag replaces the drag under way, if any: from then on the
\* drag state is the one its own arguments give, and every call of onMove,
\* onResize, onDelete is for its note and in its mode; none is for the note
\* of the discarded drag.
C12_StartDragReplaces ==
    /\ dragCall.op = "startDrag" =>
          (dragState = SessionDragState /\ draggedNoteId = session.noteId)
    /\ (dragCall.op = "handleDrag" /\ dragCall.active) =>
          (dragState = SessionDragState /\ draggedNoteId = session.noteId)
    /\ \A i \in 1..Len(emitted) :
          /\ emitted[i].id = session.noteId
          /\ emitted[i].type = IF dragCall.op = "endDrag" THEN "delete"
                               ELSE session.dragType
          /\ emitted[i].type = "delete" => session.dragType = "move"

\* a resize of note b started while a move of note a was under way, and a
\* pointer move after it
C12_Witness ==
    /\ session.discarded = "a"
    /\ session.noteId = "b"
    /\ session.dragType = "resize"
    /\ dragCall.op = "handleDrag"
    /\ Len(emitted) = 1
    /\ emitted[1].type = "resize"
    /\ emitted[1].id = "b"

\* a drag is under way: a startDrag was the last call, or a pointer move that
\* found a drag
InDrag ==
    \/ dragCall.op = "startDrag"
    \/ dragCall.op = "handleDrag" /\ dragCall.active

\* C13: isDraggingNote is true exactly while a drag started in move mode is
\* under way; it is false in the idle state and during a resize drag.
C13_IsDraggingNote ==
    isDraggingNote <=> (InDrag /\ session.dragType = "move")

\* a resize drag under way, for which isDraggingNote is false
C13_Witness ==
    /\ InDrag
    /\ dragState.isDragging
    /\ session.dragType = "resize"
    /\ ~isDraggingNote

-----------------------------------------------------------------------------
(* Properties of the store, checked under Spec.  lastEvent names the handler *)
(* or completion a step ran; a step is told from a stuttering step by the    *)
(* counter or the bag it changes.                                            *)

\* C14: in every reachable state the counter nextZIndex is strictly greater
\* than the zIndex of every note of the collection.
C14_CounterAboveNotes ==
    \A n \in Range(notes) : n.zIndex < nextZIndex

\* a note raised after a merge and a creation, holding the value just below
\* the counter
C14_Witness ==
    /\ mergeCall.called
    /\ created = 1
    /\ lastEvent.kind = "bringToFront"
    /\ Len(notes) >= 2
    /\ \E n \in Range(notes) : n.id = lastEvent.id /\ n.zIndex = nextZIndex - 1

\* a step of refreshFromServer, or one whose renders ran the hydration
RecomputesCounter ==
    \/ lastEvent'.kind = "refreshFromServer" /\ userOps' # userOps
    \/ hasHydrated' # hasHydrated

C16_RaisedIsFront ==
    [][(lastEvent'.kind = "bringToFront" /\ userOps' # userOps) =>
           /\ Len(notes') = Len(notes)
           /\ \A i \in 1..Len(notes) :
                 IF notes[i].id = lastEvent'.id
                 THEN /\ notes'[i].id = lastEvent'.id
                      /\ \A j \in 1..Len(notes') :
                            j # i => notes'[j].zIndex < notes'[i].zIndex
                 ELSE notes'[i] = notes[i]]_vars

\* the first of three notes raised above the other two
C16_Witness ==
    /\ lastEvent.kind = "bringToFront"
    /\ Len(notes) = 3
    /\ notes[1].id = lastEvent.id
    /\ notes[1].zIndex > notes[2].zIndex
    /\ notes[1].zIndex > notes[3].zIndex

\* C17: in every reachable state no two notes of the collection have the
\* same id.
C17_UniqueIds ==
    \A i, j \in 1..Len(notes) : notes[i].id = notes[j].id => i = j

\* a merge of a server list that shares a note with the collection, which
\* also holds a note created here
C17_Witness ==
    /\ lastEvent.kind = "refreshFromServer"
    /\ IdsOf(mergeCall.prev) \cap IdsOf(mergeCall.serverNotes) # {}
    /\ IdsOf(mergeCall.prev) \ IdsOf(mergeCall.serverNotes) # {}
    /\ created >= 1
    /\ Len(notes) >= 2

C19_DeleteAllOneFailure ==
    (/\ Cardinality(batch.ids) = 3
     /\ batch.done = batch.ids
     /\ Cardinality(batch.failed) = 1) =>
        /\ notes = <<>>
        /\ apiError # Null
        /\ \A id \in batch.ids \ batch.failed : ~HasId(mockDatabase, id)

-----------------------------------------------------------------------------
(* Properties of startup, persistence and the remote calls, checked under   *)
(* Spec                                                                      *)

\* C21: a step of resizeNote or of bringToFront issues no remote call and
\* leaves mockDatabase and apiNotes as they were.
C21_LocalOnly ==
    [][(lastEvent'.kind \in {"resizeNote", "bringToFront"} /\ userOps' # userOps) =>
           /\ inflight' = inflight
           /\ mockDatabase' = mockDatabase
           /\ apiNotes' = apiNotes]_vars

\* a note resized here while the server and its mirror keep the old size and
\* no call is pending
C21_Witness ==
    /\ lastEvent.kind = "resizeNote"
    /\ inflight = EmptyBag
    /\ \E n \in Range(notes), r \in Range(mockDatabase), m \in Range(apiNotes) :
          /\ n.id = lastEvent.id /\ r.id = n.id /\ m.id = n.id
          /\ n.size = Size(120, 90)
          /\ r.size # n.size
          /\ m.size # n.size

\* C22: once hasHydratedRef is set it stays set, and from then on a step
\* that is not a user operation (a completion of a fetch, a save or a
\* delete) leaves the collection and the counter as they were; only
\* refreshFromServer brings notes of the server into the collection.
C22_HydratesOnce ==
    [][hasHydrated =>
           /\ hasHydrated'
           /\ userOps' = userOps => (notes' = notes /\ nextZIndex' = nextZIndex)
           /\ lastEvent'.kind # "refreshFromServer" =>
                  IdsOf(notes') \subseteq IdsOf(notes) \cup {NewId(created')}]_vars

\* a fetch that returned notes after the collection had been hydrated from
\* savedNotes: the collection is not the fetched list
C22_Witness ==
    /\ hasHydrated
    /\ lastEvent.kind = "loadDone"
    /\ lastEvent.ok
    /\ Len(apiNotes) > 0
    /\ Len(notes) > 0
    /\ IdsOf(notes) \cap IdsOf(apiNotes) = {}

\* C23 as stated: when the fetch has succeeded with a list that is not
\* empty, the collection is that list and nextZIndex is one more than its
\* highest zIndex, whatever the user did before the fetch completed.
C23_FirstFetchAdopted ==
    (lastEvent.kind = "loadDone" /\ lastEvent.ok /\ Len(apiNotes) > 0) =>
        /\ notes = apiNotes
        /\ nextZIndex = MaxZIndex(apiNotes) + 1

\* C24 as stated, for the mount: a snapshot with notes in it is still in
\* localStorage after the mount effects, and it is the state of
\* useLocalStorage, from where the hydration adopts it.
C24_SnapshotRestored ==
    [][(~mounted /\ mounted' /\ localStorage.kind = "json"
                 /\ Len(localStorage.notes) > 0) =>
           /\ localStorage' = localStorage
           /\ savedNotes' = localStorage.notes]_vars

\* C25: after every step of the mounted application the item of
\* localStorage is the JSON text of the collection, and so is the state of
\* useLocalStorage; the list moveNote stores after its save does not stay.
C25_SnapshotIsNotes ==
    mounted =>
        /\ localStorage.kind = "json"
        /\ LoadedNotes(localStorage) = notes
        /\ savedNotes = notes

\* the save of a move has completed after the moved note was deleted: the
\* list moveNote stored held the note, the collection and the snapshot do not
C25_Witness ==
    /\ lastEvent.kind = "saveDone"
    /\ lastEvent.ok
    /\ ~HasId(notes, lastEvent.id)
    /\ \E m \in Range(apiNotes) :
          m.id = lastEvent.id /\ m.position \in MovePositions
    /\ LoadedNotes(localStorage) = notes

\* C26: the mount with no item in localStorage, or with a text that does not
\* parse, loads the empty list, sets no error, and leaves the application
\* with no notes, nothing saved and not hydrated.
C26_CorruptSnapshotIgnored ==
    [][(~mounted /\ mounted' /\ localStorage.kind # "json") =>
           /\ LoadedNotes(localStorage) = <<>>
           /\ savedNotes' = <<>>
           /\ notes' = <<>>
           /\ ~hasHydrated'
           /\ apiError' = Null]_vars

\* the application mounted on a text that did not parse
C26_Witness ==
    /\ lastEvent.kind = "mount"
    /\ ~lastEvent.ok
    /\ savedNotes = <<>>
    /\ notes = <<>>
    /\ apiError = Null

\* C27 as stated: isLoading is true exactly if a remote call is pending.
C27_LoadingIffPending ==
    isLoading <=> inflight # EmptyBag

\* C28: the completion of a delete for an id that mockDatabase does not hold
\* is a failure with status 404, sets the hook's error to the message of
\* that error and leaves mockDatabase and apiNotes as they were.
C28_DeleteUnknown ==
    [][(/\ lastEvent'.kind = "deleteDone"
        /\ inflight' # inflight
        /\ ~HasId(mockDatabase, lastEvent'.id)) =>
           /\ ~lastEvent'.ok
           /\ lastEvent'.status = 404
           /\ apiError' \in {NotFoundErrorMessage, DeleteErrorMessage}
           /\ mockDatabase' = mockDatabase
           /\ apiNotes' = apiNotes]_vars

\* the delete of a created note whose save never reached the server
C28_Witness ==
    /\ lastEvent.kind = "deleteDone"
    /\ ~lastEvent.ok
    /\ lastEvent.status = 404
    /\ lastEvent.id = NewId(1)
    /\ apiError = NotFoundErrorMessage
    /\ ~HasId(mockDatabase, lastEvent.id)

\* C29: mockDatabase never holds two notes of one id; the completion of a
\* successful save of an id it holds changes the note at that place and
\* nothing else, one of a new id appends the note; and saving the saved note
\* once more would leave mockDatabase as it is.
C29_SaveIsUpsert ==
    [][/\ \A i, j \in 1..Len(mockDatabase') :
              mockDatabase'[i].id = mockDatabase'[j].id => i = j
       /\ (lastEvent'.kind = "saveDone" /\ lastEvent'.ok /\ inflight' # inflight) =>
              /\ Len(mockDatabase') =
                     Len(mockDatabase)
                       + (IF HasId(mockDatabase, lastEvent'.id) THEN 0 ELSE 1)
              /\ \A i \in 1..Len(mockDatabase) :
                     IF mockDatabase[i].id = lastEvent'.id
                     THEN mockDatabase'[i].id = lastEvent'.id
                     ELSE mockDatabase'[i] = mockDatabase[i]
              /\ HasId(mockDatabase', lastEvent'.id)
              /\ DbSave(mockDatabase', Find(mockDatabase', lastEvent'.id))
                     = mockDatabase']_vars

\* the first of the server's three notes replaced in place by its moved
\* version
C29_Witness ==
    /\ lastEvent.kind = "saveDone"
    /\ lastEvent.ok
    /\ Len(mockDatabase) = 3
    /\ mockDatabase[1].id = lastEvent.id
    /\ mockDatabase[1].position \in MovePositions
    /\ mockDatabase[2].id = "b"
    /\ mockDatabase[3].id = "c"

\* C30 as stated: a step of deleteAllNotes empties the collection and issues
\* one delete for each note the collection held, and no other call.
C30_DeleteAllIssues ==
    [][(lastEvent'.kind = "deleteAllNotes" /\ userOps' # userOps) =>
           /\ notes' = <<>>
           /\ inflight' = inflight (+) SetToBag({DeleteRequest(id) : id \in IdsOf(notes)})]_vars

-----------------------------------------------------------------------------
(* Properties of failures, edits and reconciliation, checked under Spec and  *)
(* SpecNoFailure                                                             *)

\* C31 as stated: the completion of a failed delete puts the note back into
\* the collection, and the completion of a failed save of a note the server
\* does not hold (the save of a create) takes the note out of it.
C31_RollbackOnFailure ==
    [][(~lastEvent'.ok /\ inflight' # inflight) =>
           /\ lastEvent'.kind = "deleteDone" => HasId(notes', lastEvent'.id)
           /\ (lastEvent'.kind = "saveDone" /\ ~HasId(mockDatabase, lastEvent'.id)) =>
                  ~HasId(notes', lastEvent'.id)]_vars

\* C32 as stated: a step of moveNote does not set isLoading, and a step of
\* moveNote that follows a step of moveNote for the same note with nothing
\* in between (the next event of a burst) issues no remote call.
C32_DragDebounced ==
    [][(lastEvent'.kind = "moveNote" /\ userOps' # userOps) =>
           /\ isLoading' = isLoading
           /\ (lastEvent.kind = "moveNote" /\ lastEvent.id = lastEvent'.id) =>
                  inflight' = inflight]_vars

C34_UpdateTextFrame ==
    [][(lastEvent'.kind = "updateNoteText" /\ userOps' # userOps) =>
           /\ nextZIndex' = nextZIndex
           /\ Len(notes') = Len(notes)
           /\ \A i \in 1..Len(notes) :
                  IF notes[i].id = lastEvent'.id
                  THEN /\ notes'[i].text \in Texts
                       /\ notes'[i] = [notes[i] EXCEPT !.text = notes'[i].text]
                  ELSE notes'[i] = notes[i]
           /\ IF HasId(notes, lastEvent'.id)
              THEN inflight' = inflight (+) SetToBag({SaveRequest(Find(notes', lastEvent'.id))})
              ELSE inflight' = inflight]_vars

\* the text of a server note edited, its save pending with the new text and
\* the server still holding the old one
C34_Witness ==
    /\ lastEvent.kind = "updateNoteText"
    /\ \E n \in Range(notes), r \in Requests, m \in Range(mockDatabase) :
          /\ n.id = lastEvent.id /\ r.id = n.id /\ m.id = n.id
          /\ n.text \in Texts
          /\ r.kind = "saveNote"
          /\ r.note[1].text = n.text
          /\ m.text # n.text

\* C35: a step of moveNote changes the position of the note of that id and
\* a step of resizeNote its size, and nothing else of the collection, its
\* order or the counter; for an id the collection does not hold, neither
\* changes the collection nor issues a call.
C35_GeometryFrame ==
    [][(lastEvent'.kind \in {"moveNote", "resizeNote"} /\ userOps' # userOps) =>
           /\ nextZIndex' = nextZIndex
           /\ Len(notes') = Len(notes)
           /\ \A i \in 1..Len(notes) :
                  IF notes[i].id # lastEvent'.id THEN notes'[i] = notes[i]
                  ELSE IF lastEvent'.kind = "moveNote"
                  THEN /\ notes'[i].position \in MovePositions
                       /\ notes'[i] = [notes[i] EXCEPT !.position = notes'[i].position]
                  ELSE /\ notes'[i].size \in ResizeSizes
                       /\ notes'[i] = [notes[i] EXCEPT !.size = notes'[i].size]
           /\ ~HasId(notes, lastEvent'.id) => inflight' = inflight]_vars

\* the first of three notes moved, the two others where and as they were
C35_Witness ==
    /\ lastEvent.kind = "moveNote"
    /\ lastEvent.id = "a"
    /\ Len(notes) = 3
    /\ notes[1].id = "a"
    /\ notes[1].position \in MovePositions
    /\ notes[1].text = "hi"
    /\ notes[2].id = "b"
    /\ notes[3].id = "c"

\* C36 as stated: when the application is mounted and no remote call is
\* pending, apiNotes holds the notes of mockDatabase and no others.
C36_MirrorIsStore ==
    (mounted /\ inflight = EmptyBag) => Range(apiNotes) = Range(mockDatabase)

\* the ids createNote has given out so far
CreatedIds == {NewId(k) : k \in 1..created}

C38_RemovedStaysRemoved ==
    [][\A id \in CreatedIds : id \notin IdsOf(notes) => id \notin IdsOf(notes')]_vars

\* C39 as stated: when deleteAllNotes was the last user operation and every
\* call has been answered, none with a failure, mockDatabase is empty.
C39_DeleteAllEmptiesStore ==
    (batch.called /\ inflight = EmptyBag) => mockDatabase = <<>>

\* C40 as stated: after a step of refreshFromServer taken with no call
\* pending, in a run without failures, the collection and mockDatabase hold
\* the same ids and the same text and color for each.
C40_Converges ==
    [][(lastEvent'.kind = "refreshFromServer" /\ userOps' # userOps
                                               /\ inflight = EmptyBag) =>
           /\ IdsOf(notes') = IdsOf(mockDatabase')
           /\ \A n \in Range(notes'), m \in Range(mockDatabase') :
                  n.id = m.id => (n.text = m.text /\ n.color = m.color)]_vars

=============================================================================
